---- MODULE Spec2Model ----
(***************************************************************************)
(* Model of the singletact-programing-jig firmware:                        *)
(*   - the display coordinator (tasks/display.rs) with its animations      *)
(*     (animations.rs) and LED driver (drivers/neopixel.rs),               *)
(*   - the command channel fed by main (bin/main.rs),                      *)
(*   - the procedural mode generator (tasks/neopixel.rs),                  *)
(*   - the button hold classifier (tasks/button.rs).                       *)
(* Time is a discrete monotonic clock.  Option<T> is a sequence of length  *)
(* 0 (None) or 1 (Some).                                                   *)
(***************************************************************************)
EXTENDS Integers, Sequences, FiniteSets, TLC

(***************************************************************************)
(* Bounds of the model                                                     *)
(***************************************************************************)
\* Clock resolution of the coordinator model: clock units per second.
UnitsPerSec == 1
\* Horizon of the coordinator clock, in seconds.
MaxSecs == 2
\* Pending animations the model lets the producers queue.
MaxPending == 2

MaxTime == MaxSecs * UnitsPerSec

(***************************************************************************)
(* Option and pixel helpers                                                *)
(***************************************************************************)
None == << >>
Some(x) == << x >>
IsSome(o) == o # << >>
Unwrap(o) == o[1]

Min(a, b) == IF a < b THEN a ELSE b

RGB8(r, g, b) == [r |-> r, g |-> g, b |-> b]
Black == RGB8(0, 0, 0)
White == RGB8(255, 255, 255)
Blue  == RGB8(0, 0, 255)
Red   == RGB8(255, 0, 0)

\* crate::LED_STRING_SIZE, DEFAULT_COLOUR, MAX_PENDING_ANIMATIONS: used by
\* display.rs and drivers/neopixel.rs, declared in no file of src/.
LED_STRING_SIZE == 1
DEFAULT_COLOUR == RGB8(0, 255, 0)
MAX_PENDING_ANIMATIONS == 20

\* crate::ANIMATION_UPDATE, the Ticker period, in clock units.
ANIMATION_UPDATE == 1

\* const DISPLAY_QUEUE_SIZE: usize = 10;
DISPLAY_QUEUE_SIZE == 10

\* LedBuffer = [RGB8; LED_STRING_SIZE]
Leds == 1..LED_STRING_SIZE
Fill(p) == [i \in Leds |-> p]

(***************************************************************************)
(* animations.rs                                                           *)
(***************************************************************************)
\* The product kept in 8 bits, as `c * b` on u8 operands would be.
ScaleChannelU8(c, b) == (((c * b) % 256) \div 255) % 256

\* A u16 product followed by the division and the cast back to u8.
ScaleChannel(c, b) == (((c * b) % 65536) \div 255) % 256

\* pub fn set_brightness(brightness: u8, pixel: RGB8) -> RGB8
set_brightness(b, pixel) ==
    IF b = 0 THEN Black
    ELSE IF b = 255 THEN pixel
    ELSE RGB8(ScaleChannel(pixel.r, b), ScaleChannel(pixel.g, b), ScaleChannel(pixel.b, b))

\* SparkleAnimation::new(colour, ttl) called at clock t.  The rng is not part
\* of the value: its draws are chosen nondeterministically in NextBuffer.
SparkleNew(colour, ttl, t) ==
    [colour |-> colour,
     expires |-> IF IsSome(ttl) THEN Some(t + Unwrap(ttl)) ELSE None]

\* An animation that ends at the instant of its expiry only.
DoneAtExpiryOnly(a, t) == IsSome(a.expires) /\ t = Unwrap(a.expires)

\* An animation that never terminates.
DoneNever(a, t) == FALSE

\* `done` of SparkleAnimation::next at clock t.
Done(a, t) ==
    IF IsSome(a.expires) /\ t < Unwrap(a.expires) THEN FALSE
    ELSE IF a.expires = None THEN FALSE
    ELSE TRUE

\* Values of rng.u8(0..255) the model draws.
SparkleDraws == {0, 200}

\* The results SparkleAnimation::next can return at clock t.
NextBuffer(a, t) ==
    IF Done(a, t) THEN {None}
    ELSE {Some([i \in Leds |-> set_brightness(d[i], a.colour)]) : d \in [Leds -> SparkleDraws]}

\* Every animation interruptable; and the answer of the source inverted.
is_interruptable_always(a) == TRUE
is_interruptable_inverted(a) == IsSome(a.expires)

\* impl Interruptable for SparkleAnimation
is_interruptable(a) == a.expires = None

(***************************************************************************)
(* drivers/neopixel.rs: the arguments of each transfer are recorded; gamma *)
(* and brightness correction belong to the smart_leds crate.               *)
(***************************************************************************)
\* The torch at full level whatever level is asked for.
white_full(level) == [buf |-> [i \in 1..LED_STRING_SIZE |-> White], level |-> 255]

update_from_buffer(buf, level) == [buf |-> buf, level |-> level]
all_off == update_from_buffer(Fill(Black), 0)
white(level) == update_from_buffer(Fill(White), level)

(***************************************************************************)
(* State                                                                   *)
(***************************************************************************)
VARIABLES
    \* display_task (tasks/display.rs)
    now,                \* Instant::now() of the coordinator, in clock units
    nextTick,           \* expires_at of the animation Ticker
    dpc,                \* display_task: "boot", "run" or "idle" (init failed)
    running, torch, brightness, current_animation, animation_queue,
    screen,             \* text shown on the SSD1306
    ev,                 \* last event display_task handled
    row,                \* decision row taken by the last running tick (0: none)
    ledOps,             \* transfers issued by the last event, in order
    emitSrc,            \* animation that produced the frame the last tick wrote
    \* the command channel and its sender (bin/main.rs)
    channel,            \* DisplayChannel: commands sent and not yet received
    mpc, mtorch, mi,    \* main: position, its torch flag, the loop index i
    sent, applied,      \* every command sent / applied so far, in order
    \* one SparkleAnimation and its callers (animations.rs)
    anim,               \* the animation
    animTtl,            \* the ttl it was constructed with
    nbLast, nbAt,       \* result of the last next_buffer call, and its clock
    noneAt,             \* clock of the first call that returned None
    intLast,            \* result of the last is_interruptable call
    \* one call of set_brightness (animations.rs)
    sbIn, sbOut,        \* its arguments and its result
    \* RGB_CONFIG (lib.rs)
    cfg,
    \* handle_neopixel (tasks/neopixel.rs)
    nowMs,              \* Instant::now().as_millis()
    npc,                \* "run" or "panicked"
    prev_colour, fib,   \* its locals
    neoOp,              \* what the last iteration did: skip, same, write, panic
    lastColour,         \* colour the most recent comparing iteration computed
    lastWrite,          \* colour and level of the most recent hardware write
    \* handle_button (tasks/button.rs)
    bpc,                \* "idle" (wait_for_low), "race1", "race2", "held"
    buttonLow,          \* level of the button pin: TRUE while pressed
    edge,               \* the level the pending pin wait waits for was seen
    el,                 \* Instant::now() - time_down, in started units of 25000 ticks
    deadline2,          \* el at which the second 500 ms timer expires
    previous_mode,      \* the local of the hold branch
    ledPin,             \* level of the LED output
    signal,             \* BUTTON_STATE: the latest event, if any
    published,          \* events signalled by the last press-release cycle
    lastDur,            \* duration_pressed of the last cycle
    \* history of display_task's commands
    offSince,           \* Off was applied, and no On, Start or Torch since
    \* the LED hardware and the panic handler (panic_rtt_target)
    sinkOk,             \* transfers to the LED hardware succeed
    panicAt,            \* the task whose panic halted the program, or "none"
    \* RGB_CONFIG: Mutex<CriticalSectionRawMutex, RgbConfig> and its users
    holds,              \* the tasks that hold a guard of RGB_CONFIG
    lpc,                \* each task's position between its awaits
    hold_mode,          \* the mode found by the last hold override, if any
    \* the LED pin (peripherals.GPIO2) and the RMT channel driving it
    owners,             \* the tasks the LED hardware was moved into
    writing,            \* the tasks with a transfer to the LED hardware in flight
    \* one call of maths::sin
    sinIn,              \* the argument, in milliradians
    sinOut,             \* the result in thousandths, once the call has returned
    \* the calls and the waits of the latest loop iteration
    nbCalls,            \* the animations next_buffer was called on in the latest tick
    lastDraw,           \* the millisecond of handle_neopixel's latest draw, if any
    scope,              \* the task whose loop is followed, or "none"
    waits,              \* the awaits the latest iteration of that loop reached
    \* the identities of the animations display_task holds
    curId,              \* of current_animation
    qids                \* of the entries of animation_queue, in its order

dvars == << now, nextTick, dpc, running, torch, brightness, current_animation,
            animation_queue, screen, ev, row, ledOps, emitSrc >>
cvars == << channel, mpc, mtorch, mi, sent, applied >>

avars == << anim, animTtl, nbLast, nbAt, noneAt, intLast >>
svars == << sbIn, sbOut >>

NeoLocals == << nowMs, npc, prev_colour, fib, neoOp, lastColour, lastWrite >>
nvars == << cfg, NeoLocals >>

bvars == << bpc, buttonLow, edge, el, deadline2, previous_mode, ledPin,
            signal, published, lastDur >>

lvars == << holds, lpc, hold_mode >>

ovars == << owners, writing >>

mvars == << sinIn, sinOut >>

ivars == << curId, qids >>

zvars == << nbCalls, lastDraw, scope, waits, ivars >>

xvars == << offSince, sinkOk, panicAt, lvars, ovars, mvars, zvars >>

vars == << dvars, cvars, avars, svars, nvars, bvars, xvars >>

(***************************************************************************)
(* display_task                                                            *)
(***************************************************************************)
\* Brightness levels and positions carried by the commands of the model.
BrightnessArgs == {0, 255}
AddressArgs == {7}

DisplayState ==
    {<<"Stop">>, <<"Start">>, <<"Off">>, <<"On">>, <<"Init">>}
    \cup {<<"Torch", b>> : b \in BOOLEAN}
    \cup {<<"Brightness", b>> : b \in BrightnessArgs}
    \cup {<<"SetAddress", p>> : p \in AddressArgs}

\* Animations the producers construct: a colour and an optional ttl.
AnimationArgs == {<<Blue, None>>, <<Red, Some(UnitsPerSec)>>}

InitDisplay ==
    /\ now = 0
    /\ nextTick = ANIMATION_UPDATE
    /\ dpc = "boot"
    /\ running = TRUE
    /\ animation_queue = << >>
    /\ current_animation = SparkleNew(DEFAULT_COLOUR, Some(2 * UnitsPerSec), 0)
    /\ brightness = 10
    /\ torch = FALSE
    /\ screen = << >>
    /\ ev = "none"
    /\ row = 0
    /\ ledOps = << >>
    /\ emitSrc = None

\* display.init() and the first text; on Err the task idles forever.
DisplayBoot ==
    /\ dpc = "boot"
    /\ \/ dpc' = "run" /\ screen' = <<"Press button to start">>
       \/ dpc' = "idle" /\ screen' = screen
    /\ UNCHANGED << now, nextTick, running, torch, brightness, current_animation,
                    animation_queue, ev, row, ledOps, emitSrc >>

\* A match whose first arm ignores the interruptable flag.
DecisionRowSwapAlways(r1, peek, intr) ==
    IF IsSome(peek) THEN 1
    ELSE IF IsSome(r1) THEN 2
    ELSE 4

\* A match without the arm (None, None, _): a terminated animation over an
\* empty queue falls into the arm that keeps the frame of the scrutinee.
DecisionRowNoClear(r1, peek, intr) ==
    IF IsSome(peek) /\ intr THEN 1
    ELSE IF peek = None THEN 2
    ELSE IF IsSome(r1) /\ IsSome(peek) /\ ~intr THEN 3
    ELSE 5

\* The arm of the match in the running tick, in the order of the source.
DecisionRow(r1, peek, intr) ==
    IF IsSome(peek) /\ intr THEN 1
    ELSE IF IsSome(r1) /\ peek = None THEN 2
    ELSE IF IsSome(r1) /\ IsSome(peek) /\ ~intr THEN 3
    ELSE IF r1 = None /\ peek = None THEN 4
    ELSE 5

Peek(q) == IF q = << >> THEN None ELSE Some(Head(q))

\* Either::First(_): the ticker fired.
TickFired ==
    /\ dpc = "run"
    /\ now >= nextTick
    /\ nextTick' = nextTick + ANIMATION_UPDATE
    /\ ev' = "tick"
    /\ UNCHANGED << now, dpc, running, torch, brightness, screen >>
    /\ IF ~running
       THEN /\ row' = 0 /\ ledOps' = << >> /\ emitSrc' = None
            /\ UNCHANGED << current_animation, animation_queue >>
       ELSE \E r1 \in NextBuffer(current_animation, now) :
            LET peek == Peek(animation_queue)
                k == DecisionRow(r1, peek, is_interruptable(current_animation))
                swap == k \in {1, 5}
                cur == IF swap THEN Unwrap(peek) ELSE current_animation
            IN  /\ row' = k
                /\ current_animation' = cur
                /\ animation_queue' = IF swap THEN Tail(animation_queue) ELSE animation_queue
                /\ \E new_buf \in (IF k \in {2, 3} THEN {r1} ELSE NextBuffer(cur, now)) :
                     /\ ledOps' = (IF k = 4 THEN << all_off >> ELSE << >>)
                                  \o (IF IsSome(new_buf)
                                      THEN << update_from_buffer(Unwrap(new_buf), brightness) >>
                                      ELSE << >>)
                     /\ emitSrc' = IF IsSome(new_buf) THEN Some(cur) ELSE None

\* A Stop arm that leaves `running` as it was.
CommandRunningStopIgnored(m, r) ==
    IF m[1] = "Off" THEN FALSE
    ELSE IF m[1] \in {"Start", "On"} THEN TRUE
    ELSE IF m[1] = "Torch" THEN ~m[2]
    ELSE r

\* A Brightness arm that never redrives the strip.
CommandLedOpsQuietBrightness(m, t, b) ==
    IF m[1] = "Off" THEN << all_off >>
    ELSE IF m[1] = "Torch" THEN (IF m[2] THEN << white(b) >> ELSE << all_off >>)
    ELSE << >>

\* Text commands that also clear the strip.
CommandLedOpsTextClears(m, t, b) ==
    IF m[1] \in {"Off", "Init", "SetAddress"} THEN << all_off >>
    ELSE IF m[1] = "Brightness" /\ t THEN << white(m[2]) >>
    ELSE IF m[1] = "Torch" THEN (IF m[2] THEN << white(b) >> ELSE << all_off >>)
    ELSE << >>

\* The value of `running` after the arm of command m.
CommandRunning(m, r) ==
    IF m[1] \in {"Stop", "Off"} THEN FALSE
    ELSE IF m[1] \in {"Start", "On"} THEN TRUE
    ELSE IF m[1] = "Torch" THEN ~m[2]
    ELSE r

\* The transfers the arm of command m issues, with torch flag t and stored
\* brightness b before it.
CommandLedOps(m, t, b) ==
    IF m[1] = "Off" THEN << all_off >>
    ELSE IF m[1] = "Brightness" /\ t THEN << white(m[2]) >>
    ELSE IF m[1] = "Torch" THEN (IF m[2] THEN << white(b) >> ELSE << all_off >>)
    ELSE << >>

\* Either::Second(message): one command applied.
CommandReceived(m) ==
    /\ dpc = "run"
    /\ ev' = "cmd"
    /\ row' = 0
    /\ emitSrc' = None
    /\ UNCHANGED << now, nextTick, dpc, current_animation, animation_queue >>
    /\ running' = CommandRunning(m, running)
    /\ torch' = (IF m[1] = "Torch" THEN m[2] ELSE torch)
    /\ brightness' = (IF m[1] = "Brightness" THEN m[2] ELSE brightness)
    /\ ledOps' = CommandLedOps(m, torch, brightness)
    /\ screen' = (IF m[1] = "Init" THEN <<"Press button to start">>
                  ELSE IF m[1] = "SetAddress" THEN <<"Position", m[2], "Address", (m[2] + 8) % 256>>
                  ELSE screen)

\* A producer constructs an animation and queues it.
Enqueue(colour, ttl) ==
    /\ Len(animation_queue) < Min(MAX_PENDING_ANIMATIONS, MaxPending)
    /\ animation_queue' = Append(animation_queue, SparkleNew(colour, ttl, now))
    /\ UNCHANGED << now, nextTick, dpc, running, torch, brightness,
                    current_animation, screen, ev, row, ledOps, emitSrc >>

\* The clock moves on; a running display_task has handled every tick due.
AdvanceTime ==
    /\ now < MaxTime
    /\ ~(dpc = "run" /\ now >= nextTick)
    /\ now' = now + 1
    /\ UNCHANGED << nextTick, dpc, running, torch, brightness, current_animation,
                    animation_queue, screen, ev, row, ledOps, emitSrc >>

(***************************************************************************)
(* The command channel and main (bin/main.rs)                              *)
(***************************************************************************)
\* Commands the model lets main send before it stops pressing buttons.
MaxSends == 12

\* A channel that never reports full.
ChannelNeverFull(ch) == FALSE

\* Channel::send suspends the sender while the channel holds N commands.
ChannelFull(ch) == Len(ch) >= DISPLAY_QUEUE_SIZE

InitChannel ==
    /\ channel = << >>
    /\ mpc = "sendInit"
    /\ mtorch = FALSE
    /\ mi = 0
    /\ sent = << >>
    /\ applied = << >>

\* sender.send(m).await in main: completes only when a slot is free.
MainSend(m) ==
    /\ ~ChannelFull(channel)
    /\ Len(sent) < MaxSends
    /\ channel' = Append(channel, m)
    /\ sent' = Append(sent, m)
    /\ applied' = applied

\* sender.send(DisplayState::Init) before the loop and after programming.
MainSendInit ==
    /\ mpc = "sendInit"
    /\ MainSend(<<"Init">>)
    /\ mpc' = "wait"
    /\ UNCHANGED << mtorch, mi >>

\* select(wait_for_press(button0), wait_for_press(button1)) returns.
MainPress ==
    /\ mpc = "wait"
    /\ \/ mtorch' = ~mtorch /\ mpc' = "sendTorch" /\ mi' = mi
       \/ mtorch' = mtorch /\ mpc' = "sendAddr" /\ mi' = 0
    /\ UNCHANGED << channel, sent, applied >>

MainSendTorch ==
    /\ mpc = "sendTorch"
    /\ MainSend(<<"Torch", mtorch>>)
    /\ mpc' = "wait"
    /\ UNCHANGED << mtorch, mi >>

\* for i in 0..8 { send(SetAddress(i)); Timer::after(1 s) }
MainSendAddress ==
    /\ mpc = "sendAddr"
    /\ MainSend(<<"SetAddress", mi>>)
    /\ mi' = mi + 1
    /\ mpc' = IF mi + 1 < 8 THEN "sendAddr" ELSE "sendInit"
    /\ UNCHANGED mtorch

\* channel.receive() completes in display_task's select: the head is applied.
ChannelReceive ==
    /\ channel # << >>
    /\ CommandReceived(Head(channel))
    /\ channel' = Tail(channel)
    /\ applied' = Append(applied, Head(channel))
    /\ UNCHANGED << mpc, mtorch, mi, sent >>

(***************************************************************************)
(* One animation driven by its callers (animations.rs)                     *)
(***************************************************************************)
\* ttl arguments of SparkleAnimation::new, in clock units.
AnimTtlArgs == {None} \cup {Some(d) : d \in 0..MaxTime}

\* No animation under test: the part is parked.
ParkedAnimation ==
    /\ anim = SparkleNew(DEFAULT_COLOUR, None, 0) /\ animTtl = None
    /\ nbLast = "parked" /\ nbAt = 0 /\ noneAt = None /\ intLast = None

\* SparkleAnimation::new(colour, ttl) at clock 0.
InitAnimation ==
    /\ \E c \in {DEFAULT_COLOUR, Blue}, ttl \in AnimTtlArgs :
         /\ anim = SparkleNew(c, ttl, 0)
         /\ animTtl = ttl
    /\ nbLast = "never" /\ nbAt = 0 /\ noneAt = None /\ intLast = None

\* next_buffer(&mut anim)
CallNextBuffer ==
    /\ \E r \in NextBuffer(anim, now) :
         /\ nbLast' = (IF IsSome(r) THEN "Some" ELSE "None")
         /\ noneAt' = (IF r = None /\ noneAt = None THEN Some(now) ELSE noneAt)
    /\ nbAt' = now
    /\ UNCHANGED << anim, animTtl, intLast >>

\* is_interruptable(&anim)
CallIsInterruptable ==
    /\ intLast' = Some(is_interruptable(anim))
    /\ UNCHANGED << anim, animTtl, nbLast, nbAt, noneAt >>

(***************************************************************************)
(* One call of set_brightness (animations.rs)                              *)
(***************************************************************************)
U8 == 0..255

ParkedBrightness == sbIn = << >> /\ sbOut = None

\* Every brightness with every value of a channel; the three channels of the
\* pixel take different values.
InitBrightness ==
    /\ \E b \in U8, c \in U8 :
         sbIn = [brightness |-> b, pixel |-> RGB8(c, 255 - c, (7 * c + 13) % 256)]
    /\ sbOut = None

CallSetBrightness ==
    /\ sbOut = None
    /\ sbOut' = Some(set_brightness(sbIn.brightness, sbIn.pixel))
    /\ sbIn' = sbIn

(***************************************************************************)
(* maths.rs, in fixed point: angles in milliradians, values in thousandths *)
(***************************************************************************)
PI_MRAD == 3142
TAU_MRAD == 6283
FRAC_PI_2_MRAD == 1571

\* fn _sin(x): the Maclaurin series up to x^9, for x in [0, pi/2].
MaclaurinSin(x) ==
    LET x2 == (x * x) \div 1000
        x3 == (x2 * x) \div 1000
        x5 == (x3 * x2) \div 1000
        x7 == (x5 * x2) \div 1000
        x9 == (x7 * x2) \div 1000
    IN  x - (x3 \div 6) + (x5 \div 120) - (x7 \div 5040) + (x9 \div 362880)

\* `multiplier as u8`: a float cast to u8 saturates, so -1.0 becomes 0.
FloatAsU8(v) == IF v < 0 THEN 0 ELSE IF v > 255 THEN 255 ELSE v

\* pub fn sin(x), for x >= 0.
sin(x0) ==
    LET x1 == x0 % TAU_MRAD
        multiplier == IF x1 > PI_MRAD THEN -1 ELSE 1
        x == IF x1 > PI_MRAD THEN x1 - PI_MRAD ELSE x1
    IN  FloatAsU8(multiplier)
          * (IF x <= FRAC_PI_2_MRAD THEN MaclaurinSin(x) ELSE MaclaurinSin(PI_MRAD - x))

\* Arguments of sin the model draws: multiples of AngleStep milliradians, up
\* to more than two periods.
AngleStep == 50
MaxAngleSteps == 260
SineArgs == {AngleStep * k : k \in 0..MaxAngleSteps}

ParkedSine == sinIn = 0 /\ sinOut = None

InitSine == sinIn \in SineArgs /\ sinOut = None

CallSin ==
    /\ sinOut = None
    /\ sinOut' = Some(sin(sinIn))
    /\ sinIn' = sinIn

\* FibonacciWrapped::next on <<num1, num2>>: the new state; its num2 is returned.
FibNext(f) == << f[2], (f[1] + f[2]) % 256 >>

(***************************************************************************)
(* RGB_CONFIG (lib.rs) and handle_neopixel (tasks/neopixel.rs)             *)
(***************************************************************************)
\* Milliseconds of the generator's clock the model covers.
MaxMs == 4
\* Terms of the Fibonacci sequence the model lets the generator draw.
MaxFibTerm == 8

\* smart_leds::hsv2rgb, in u16 arithmetic.
hsv2rgb(hue, sat, val) ==
    LET f == ((hue * 2) % 85) * 3
        p == (val * (255 - sat)) \div 255
        q == (val * (255 - ((sat * f) \div 255))) \div 255
        t == (val * (255 - ((sat * (255 - f)) \div 255))) \div 255
    IN  IF hue <= 42 THEN RGB8(val, t, p)
        ELSE IF hue <= 84 THEN RGB8(q, val, p)
        ELSE IF hue <= 127 THEN RGB8(p, val, t)
        ELSE IF hue <= 169 THEN RGB8(p, q, val)
        ELSE IF hue <= 212 THEN RGB8(t, p, val)
        ELSE IF hue <= 254 THEN RGB8(val, p, q)
        ELSE RGB8(val, p, p)

\* RgbConfig::DEFAULT: SineCycle(0.01), Low, Moderate.  The SineCycle rate is
\* kept in hundredths.
RgbConfigDefault ==
    [rgb_mode |-> <<"SineCycle", 1>>, rgb_brightness |-> 10, rgb_rate_modifier |-> 7]

HoldColour1 == RGB8(190, 240, 255)
HoldColour2 == RGB8(0, 0, 255)

\* Configurations the writers of RGB_CONFIG apply in the model.
NeoConfigs ==
    { RgbConfigDefault,
      [rgb_mode |-> <<"Static", Black>>, rgb_brightness |-> 10, rgb_rate_modifier |-> 7],
      [rgb_mode |-> <<"Static", HoldColour1>>, rgb_brightness |-> 255, rgb_rate_modifier |-> 7],
      [rgb_mode |-> <<"Continuous", 1000>>, rgb_brightness |-> 10, rgb_rate_modifier |-> 20],
      [rgb_mode |-> <<"Random", 100>>, rgb_brightness |-> 10, rgb_rate_modifier |-> 20],
      [rgb_mode |-> <<"Fibonacci", 100>>, rgb_brightness |-> 10, rgb_rate_modifier |-> 20],
      [rgb_mode |-> <<"Random", 0>>, rgb_brightness |-> 10, rgb_rate_modifier |-> 7] }

\* Hues (rng.random() / 257) as u8 the model draws.
RandomHues == {0, 128}

InitNeopixel ==
    /\ cfg = RgbConfigDefault
    /\ nowMs = 0
    /\ npc = "run"
    /\ prev_colour = Black
    /\ fib = << 0, 1 >>
    /\ neoOp = "none"
    /\ lastColour = None
    /\ lastWrite = None

\* RgbConfig::apply
ApplyConfig(c) ==
    /\ cfg' = c
    /\ UNCHANGED << nowMs, npc, prev_colour, fib, neoOp, lastColour, lastWrite >>

AdvanceMs ==
    /\ nowMs < MaxMs
    /\ nowMs' = nowMs + 1
    /\ UNCHANGED << cfg, npc, prev_colour, fib, neoOp, lastColour, lastWrite >>

\* 5000 / (rate * rate_multiplier) and the modulo by it: a zero divisor panics.
RatePanics(rate, mult) == rate * mult = 0 \/ 5000 \div (rate * mult) = 0
RateDue(rate, mult, time) == time % (5000 \div (rate * mult)) = 0

\* The outcomes of `let colour = match config.rgb_mode { ... }`:
\* <<"colour", c, fib'>>, <<"skip">> (yield and continue) or <<"panic">>.
ComputeColour(config, time, f) ==
    LET mode == config.rgb_mode
        mult == config.rgb_rate_modifier
    IN  IF mode[1] = "SineCycle"
        THEN {<<"colour",
                hsv2rgb(FloatAsU8((sin((time * mode[2] * mult) \div 100) * 255) \div 1000), 255, 255),
                f>>}
        ELSE IF mode[1] = "Continuous"
        THEN {<<"colour", hsv2rgb(((time * mode[2] * mult) \div 1000) % 255, 255, 255), f>>}
        ELSE IF mode[1] = "Random"
        THEN IF RatePanics(mode[2], mult) THEN {<<"panic">>}
             ELSE IF RateDue(mode[2], mult, time)
             THEN {<<"colour", hsv2rgb(h, 255, 255), f>> : h \in RandomHues}
             ELSE {<<"skip">>}
        ELSE IF mode[1] = "Fibonacci"
        THEN IF RatePanics(mode[2], mult) THEN {<<"panic">>}
             ELSE IF RateDue(mode[2], mult, time)
             THEN {<<"colour", hsv2rgb(FibNext(f)[2], 255, 255), FibNext(f)>>}
             ELSE {<<"skip">>}
        ELSE {<<"colour", mode[2], f>>}

\* if prev_colour == colour { yield; continue }
\* A comparison that never finds the colours equal.
ColourNeverUnchanged(prev, colour) == FALSE

ColourUnchanged(prev, colour) == prev = colour

\* One iteration of the loop of handle_neopixel.
NeoIteration ==
    /\ npc = "run"
    /\ UNCHANGED << cfg, nowMs >>
    /\ \E o \in ComputeColour(cfg, nowMs, fib) :
         IF o[1] = "panic"
         THEN /\ npc' = "panicked" /\ neoOp' = "panic"
              /\ UNCHANGED << prev_colour, fib, lastColour, lastWrite >>
         ELSE IF o[1] = "skip"
         THEN /\ neoOp' = "skip"
              /\ UNCHANGED << npc, prev_colour, fib, lastColour, lastWrite >>
         ELSE /\ o[3][2] <= MaxFibTerm
              /\ fib' = o[3]
              /\ lastColour' = Some(o[2])
              /\ npc' = npc
              /\ IF ColourUnchanged(prev_colour, o[2])
                 THEN /\ neoOp' = "same"
                      /\ UNCHANGED << prev_colour, lastWrite >>
                 ELSE /\ neoOp' = "write"
                      /\ prev_colour' = o[2]
                      /\ lastWrite' = Some([colour |-> o[2], level |-> cfg.rgb_brightness])

(***************************************************************************)
(* handle_button (tasks/button.rs).  The unit of its clock is 25000 timer  *)
(* ticks (25 ms at the 1 MHz tick rate of the esp-hal time driver).        *)
(***************************************************************************)
\* Duration::from_ticks(25000)
DebounceUnits == 1
\* Timer::after_millis(500), Duration::from_millis(500)
HalfSecondUnits == 20
\* Duration::from_millis(1000)
FullSecondUnits == 40
\* Longest press the model follows, in units.
MaxHold == 42

InitButton ==
    /\ bpc = "idle"
    /\ buttonLow = FALSE
    /\ edge = FALSE
    /\ el = 0
    /\ deadline2 = 0
    /\ previous_mode = RgbConfigDefault.rgb_mode
    /\ ledPin = FALSE
    /\ signal = None
    /\ published = << >>
    /\ lastDur = 0

\* The button goes down or up.  A pending wait_for_low / wait_for_high is
\* woken by the level and stays ready until the task is polled.
PressButton ==
    /\ ~buttonLow
    /\ buttonLow' = TRUE
    /\ edge' = (IF bpc = "idle" THEN TRUE ELSE edge)
    /\ UNCHANGED << bpc, el, deadline2, previous_mode, ledPin, signal, published,
                    lastDur, cfg >>

ReleaseButton ==
    /\ buttonLow
    /\ buttonLow' = FALSE
    /\ edge' = (IF bpc # "idle" THEN TRUE ELSE edge)
    /\ UNCHANGED << bpc, el, deadline2, previous_mode, ledPin, signal, published,
                    lastDur, cfg >>

\* Time passes while a press is being timed.
ButtonClock ==
    /\ bpc # "idle"
    /\ el < MaxHold
    /\ el' = el + 1
    /\ UNCHANGED << bpc, buttonLow, edge, deadline2, previous_mode, ledPin, signal,
                    published, lastDur, cfg >>

\* button.wait_for_low() returns: time_down is taken, the LED is set and the
\* first select starts.
ButtonDown ==
    /\ bpc = "idle"
    /\ edge
    /\ bpc' = "race1"
    /\ el' = 0
    /\ ledPin' = TRUE
    /\ edge' = ~buttonLow
    /\ published' = << >>
    /\ UNCHANGED << buttonLow, deadline2, previous_mode, signal, lastDur, cfg >>

\* The classification with inclusive thresholds.
ButtonEventInclusive(d) ==
    IF d >= DebounceUnits
    THEN IF d >= FullSecondUnits THEN Some("HoldFullSecond")
         ELSE IF d >= HalfSecondUnits THEN Some("HoldHalfSecond")
         ELSE Some("Press")
    ELSE None

\* A classification that knows no half-second hold.
ButtonEventNoHalfSecond(d) ==
    IF d > DebounceUnits
    THEN IF d > FullSecondUnits THEN Some("HoldFullSecond")
         ELSE Some("Press")
    ELSE None

\* The classification of duration_pressed: the event to signal, if any.
ButtonEvent(d) ==
    IF d > DebounceUnits
    THEN IF d > FullSecondUnits THEN Some("HoldFullSecond")
         ELSE IF d > HalfSecondUnits THEN Some("HoldHalfSecond")
         ELSE Some("Press")
    ELSE None

\* From duration_pressed to the end of the loop body, and wait_for_low again.
ButtonFinish ==
    /\ lastDur' = el
    /\ ledPin' = FALSE
    /\ signal' = (IF IsSome(ButtonEvent(el)) THEN ButtonEvent(el) ELSE signal)
    /\ published' = (IF IsSome(ButtonEvent(el)) THEN << Unwrap(ButtonEvent(el)) >> ELSE << >>)
    /\ bpc' = "idle"
    /\ edge' = buttonLow
    /\ UNCHANGED << buttonLow, el, deadline2 >>

\* First select: Either::Left, the release came before the 500 ms timer (or
\* both are ready: the release is polled first).
Race1Released ==
    /\ bpc = "race1"
    /\ edge
    /\ ButtonFinish
    /\ UNCHANGED << previous_mode, cfg >>

\* First select: Either::Right.  The mode is saved and overridden, and the
\* second select starts.  el counts started units: the timer is armed at
\* time_down or later and the task is polled after its expiry, so by then the
\* clock reads more than time_down + 500 ms.
Race1TimedOut ==
    /\ bpc = "race1"
    /\ ~edge
    /\ el > HalfSecondUnits
    /\ previous_mode' = cfg.rgb_mode
    /\ cfg' = [cfg EXCEPT !.rgb_mode = <<"Static", HoldColour1>>]
    /\ deadline2' = el + HalfSecondUnits
    /\ bpc' = "race2"
    /\ UNCHANGED << buttonLow, edge, el, ledPin, signal, published, lastDur >>

\* Second select: Either::Left, then the mode is restored.
Race2Released ==
    /\ bpc = "race2"
    /\ edge
    /\ cfg' = [cfg EXCEPT !.rgb_mode = previous_mode]
    /\ ButtonFinish
    /\ UNCHANGED previous_mode

\* Second select: Either::Right, the second feedback colour.
Race2TimedOut ==
    /\ bpc = "race2"
    /\ ~edge
    /\ el >= deadline2
    /\ cfg' = [cfg EXCEPT !.rgb_mode = <<"Static", HoldColour2>>]
    /\ bpc' = "held"
    /\ UNCHANGED << buttonLow, edge, el, deadline2, previous_mode, ledPin, signal,
                    published, lastDur >>

\* button_release.await returns, then the mode is restored.
HeldReleased ==
    /\ bpc = "held"
    /\ edge
    /\ cfg' = [cfg EXCEPT !.rgb_mode = previous_mode]
    /\ ButtonFinish
    /\ UNCHANGED previous_mode

(***************************************************************************)
(* RGB_CONFIG and the tasks that lock it, statement by statement: the hold *)
(* branch of handle_button (button.rs 33-61), the head of the loop of      *)
(* handle_neopixel (neopixel.rs 29-31, 81-91) and a caller of              *)
(* RgbConfig::apply (lib.rs 76-78).                                        *)
(***************************************************************************)
LockUsers == {"handle_button", "handle_neopixel", "apply"}

\* Positions at which a task is suspended in an await other than lock().
AwaitPcs == {"wait_for_low", "select1", "select2", "button_release",
             "yield_or_write", "idle"}
\* Positions at which a task is suspended in RGB_CONFIG.lock().await.
LockPcs == {"lock1", "lock2", "lock3", "lock"}

InitLock ==
    /\ holds = {}
    /\ lpc = [t \in LockUsers |->
                IF t = "handle_button" THEN "wait_for_low"
                ELSE IF t = "handle_neopixel" THEN "lock" ELSE "idle"]
    /\ hold_mode = None

\* A lock that is granted whoever holds it.
MutexAlwaysFree(h) == TRUE

\* Mutex::lock completes only while no guard is alive.
MutexFree(h) == h = {}

\* The end of the scope of a guard: the block of button.rs 40-45, the
\* statements of button.rs 50-55 and 59, neopixel.rs 30 and lib.rs 77.
GuardDropped(h, t) == h \ {t}

\* A set_mode that leaves the configuration as it was.
set_mode_ignored(config, mode) == config

\* RgbConfig::set_mode
set_mode(config, mode) == [config EXCEPT !.rgb_mode = mode]

\* A task moves between awaits without touching the configuration.
LockStep(t, from, to) ==
    /\ lpc[t] = from
    /\ lpc' = [lpc EXCEPT ![t] = to]
    /\ UNCHANGED << holds, hold_mode, cfg, previous_mode >>

\* RGB_CONFIG.lock().await completes.
LockAcquire(t, from, to) ==
    /\ lpc[t] = from
    /\ MutexFree(holds)
    /\ holds' = holds \cup {t}
    /\ lpc' = [lpc EXCEPT ![t] = to]
    /\ UNCHANGED << hold_mode, cfg, previous_mode >>

\* handle_button, from wait_for_low to the end of the match on the select.
ButtonLockStep ==
    \/ LockStep("handle_button", "wait_for_low", "select1")
    \/ LockStep("handle_button", "select1", "wait_for_low")
    \/ LockStep("handle_button", "select1", "lock1")
    \/ LockAcquire("handle_button", "lock1", "in1")
    \/ /\ lpc["handle_button"] = "in1"
       /\ previous_mode' = cfg.rgb_mode
       /\ hold_mode' = Some(cfg.rgb_mode)
       /\ cfg' = set_mode(cfg, <<"Static", HoldColour1>>)
       /\ holds' = GuardDropped(holds, "handle_button")
       /\ lpc' = [lpc EXCEPT !["handle_button"] = "select2"]
    \/ LockStep("handle_button", "select2", "lock3")
    \/ LockStep("handle_button", "select2", "lock2")
    \/ LockAcquire("handle_button", "lock2", "in2")
    \/ /\ lpc["handle_button"] = "in2"
       /\ cfg' = set_mode(cfg, <<"Static", HoldColour2>>)
       /\ holds' = GuardDropped(holds, "handle_button")
       /\ lpc' = [lpc EXCEPT !["handle_button"] = "button_release"]
       /\ UNCHANGED << previous_mode, hold_mode >>
    \/ LockStep("handle_button", "button_release", "lock3")
    \/ LockAcquire("handle_button", "lock3", "in3")
    \/ /\ lpc["handle_button"] = "in3"
       /\ cfg' = set_mode(cfg, previous_mode)
       /\ holds' = GuardDropped(holds, "handle_button")
       /\ lpc' = [lpc EXCEPT !["handle_button"] = "wait_for_low"]
       /\ UNCHANGED << previous_mode, hold_mode >>

\* handle_neopixel: lock, clone, and the rest of the iteration on the clone.
NeoLockStep ==
    \/ LockAcquire("handle_neopixel", "lock", "in")
    \/ /\ lpc["handle_neopixel"] = "in"
       /\ holds' = GuardDropped(holds, "handle_neopixel")
       /\ lpc' = [lpc EXCEPT !["handle_neopixel"] = "yield_or_write"]
       /\ UNCHANGED << cfg, previous_mode, hold_mode >>
    \/ LockStep("handle_neopixel", "yield_or_write", "lock")

\* A caller of RgbConfig::apply.
ApplyLockStep ==
    \/ LockStep("apply", "idle", "lock")
    \/ LockAcquire("apply", "lock", "in")
    \/ /\ lpc["apply"] = "in"
       /\ \E c \in NeoConfigs : cfg' = c
       /\ holds' = GuardDropped(holds, "apply")
       /\ lpc' = [lpc EXCEPT !["apply"] = "idle"]
       /\ UNCHANGED << previous_mode, hold_mode >>

(***************************************************************************)
(* Ownership of the LED hardware: main moves peripherals.GPIO2 and the RMT *)
(* into LedDriver and LedDriver into display_task (main.rs 73-84);         *)
(* handle_neopixel takes the same pin and an RMT channel by value          *)
(* (neopixel.rs 20-25).                                                    *)
(***************************************************************************)
InitOwner == owners = {} /\ writing = {}

\* A peripheral that can be handed out any number of times.
PeripheralCopied(o) == TRUE

\* A peripheral can be moved out of `peripherals` once.
PeripheralAvailable(o) == o = {}

\* The LED hardware is moved into task t when it is spawned.
SpawnWithLed(t) ==
    /\ PeripheralAvailable(owners)
    /\ owners' = owners \cup {t}
    /\ writing' = writing

\* Task t may run a step: it was given the hardware and is not suspended in
\* a transfer.
MayRun(t) == t \in owners /\ t \notin writing

\* neopixel.write(..).await / self.led.write(..).await completes.
TransferDone(t) ==
    /\ t \in writing
    /\ writing' = writing \ {t}
    /\ owners' = owners

(***************************************************************************)
(* Specifications                                                          *)
(***************************************************************************)
\* The coordinator with its commands sent by any task holding a sender.
\* The history variables before any command.
InitTrace ==
    /\ nbCalls = << >> /\ lastDraw = None /\ scope = "none" /\ waits = << >>
    /\ curId = 0 /\ qids = << >>

InitHistory == offSince = FALSE /\ sinkOk = TRUE /\ panicAt = "none" /\ InitLock /\ InitOwner /\ InitTrace

InitExtra == InitHistory /\ ParkedSine

Init == InitDisplay /\ InitChannel /\ ParkedAnimation /\ ParkedBrightness /\ InitNeopixel /\ InitButton /\ InitExtra

Next ==
    \/ DisplayBoot /\ UNCHANGED << cvars, avars, svars, nvars, bvars, xvars >>
    \/ TickFired /\ UNCHANGED << cvars, avars, svars, nvars, bvars, xvars >>
    \/ \E m \in DisplayState : CommandReceived(m) /\ UNCHANGED << cvars, avars, svars, nvars, bvars, xvars >>
    \/ \E a \in AnimationArgs : Enqueue(a[1], a[2]) /\ UNCHANGED << cvars, avars, svars, nvars, bvars, xvars >>
    \/ AdvanceTime /\ UNCHANGED << cvars, avars, svars, nvars, bvars, xvars >>

Spec == Init /\ [][Next]_vars

\* Whether the strip is in the scope of an Off after command m.
OffScope(m, o) ==
    IF m[1] = "Off" THEN TRUE
    ELSE IF m[1] \in {"On", "Start", "Torch"} THEN FALSE
    ELSE o

\* display_task with no producer of animations, and the history of Off.
NextOff ==
    \/ DisplayBoot /\ UNCHANGED << cvars, avars, svars, nvars, bvars, xvars >>
    \/ TickFired /\ UNCHANGED << cvars, avars, svars, nvars, bvars, xvars >>
    \/ \E m \in DisplayState :
         /\ CommandReceived(m)
         /\ offSince' = OffScope(m, offSince)
         /\ UNCHANGED << cvars, avars, svars, nvars, bvars, sinkOk, panicAt, lvars, ovars, mvars, zvars >>
    \/ AdvanceTime /\ UNCHANGED << cvars, avars, svars, nvars, bvars, xvars >>

SpecOff == Init /\ [][NextOff]_vars

\* The LED hardware stops accepting transfers.
SinkFails ==
    /\ sinkOk
    /\ sinkOk' = FALSE
    /\ UNCHANGED << dvars, cvars, avars, svars, nvars, bvars, offSince, panicAt, lvars, ovars, mvars, zvars >>

\* `.expect("Failed to update LED driver")` of update_from_buffer and
\* `.unwrap()` of handle_neopixel: a transfer that fails panics, and the panic
\* handler halts the program.
PanicOnWrite(task, wrote, ok, p) == IF wrote /\ ~ok THEN task ELSE p

\* display_task and handle_neopixel over LED hardware that can fail.
NextFail ==
    \/ SinkFails
    \/ /\ panicAt = "none"
       /\ DisplayBoot
       /\ UNCHANGED << cvars, avars, svars, nvars, bvars, xvars >>
    \/ /\ panicAt = "none"
       /\ TickFired
       /\ panicAt' = PanicOnWrite("display_task", ledOps' # << >>, sinkOk, panicAt)
       /\ UNCHANGED << cvars, avars, svars, nvars, bvars, offSince, sinkOk, lvars, ovars, mvars, zvars >>
    \/ /\ panicAt = "none"
       /\ \E m \in DisplayState :
            /\ CommandReceived(m)
            /\ panicAt' = PanicOnWrite("display_task", ledOps' # << >>, sinkOk, panicAt)
       /\ UNCHANGED << cvars, avars, svars, nvars, bvars, offSince, sinkOk, lvars, ovars, mvars, zvars >>
    \/ /\ panicAt = "none"
       /\ AdvanceTime
       /\ UNCHANGED << cvars, avars, svars, nvars, bvars, xvars >>
    \/ /\ panicAt = "none"
       /\ \E c \in {k \in NeoConfigs : k.rgb_mode[1] = "Static"} : ApplyConfig(c)
       /\ UNCHANGED << dvars, cvars, avars, svars, bvars, xvars >>
    \/ /\ panicAt = "none"
       /\ NeoIteration
       /\ panicAt' = PanicOnWrite("handle_neopixel", neoOp' = "write", sinkOk, panicAt)
       /\ UNCHANGED << dvars, cvars, avars, svars, bvars, offSince, sinkOk, lvars, ovars, mvars, zvars >>

SpecFail == Init /\ [][NextFail]_vars

\* The users of RGB_CONFIG, interleaved at every statement.
LockRest == << dvars, cvars, avars, svars, NeoLocals, bpc, buttonLow, edge, el,
               deadline2, ledPin, signal, published, lastDur, offSince, sinkOk,
               panicAt, ovars, mvars, zvars >>

NextLock ==
    \/ ButtonLockStep /\ UNCHANGED LockRest
    \/ NeoLockStep /\ UNCHANGED LockRest
    \/ ApplyLockStep /\ UNCHANGED LockRest

SpecLock == Init /\ [][NextLock]_vars

\* display_task and handle_neopixel, each spawned with the LED hardware if
\* it is still there to move, and their transfers as intervals.
OwnerRest == << offSince, sinkOk, panicAt, lvars, mvars, zvars >>

NextOwner ==
    \/ \E t \in {"display_task", "handle_neopixel"} :
         SpawnWithLed(t) /\ UNCHANGED << dvars, cvars, avars, svars, nvars, bvars, OwnerRest >>
    \/ \E t \in {"display_task", "handle_neopixel"} :
         TransferDone(t) /\ UNCHANGED << dvars, cvars, avars, svars, nvars, bvars, OwnerRest >>
    \/ /\ MayRun("display_task")
       /\ DisplayBoot
       /\ UNCHANGED << cvars, avars, svars, nvars, bvars, xvars >>
    \/ /\ MayRun("display_task")
       /\ TickFired \/ \E b \in BOOLEAN : CommandReceived(<<"Torch", b>>)
       /\ writing' = IF ledOps' # << >> THEN writing \cup {"display_task"} ELSE writing
       /\ UNCHANGED << cvars, avars, svars, nvars, bvars, OwnerRest, owners >>
    \/ AdvanceTime /\ UNCHANGED << cvars, avars, svars, nvars, bvars, xvars >>
    \/ /\ \E c \in {k \in NeoConfigs : k.rgb_mode[1] = "Static"} : ApplyConfig(c)
       /\ UNCHANGED << dvars, cvars, avars, svars, bvars, xvars >>
    \/ /\ MayRun("handle_neopixel")
       /\ NeoIteration
       /\ writing' = IF neoOp' = "write" THEN writing \cup {"handle_neopixel"} ELSE writing
       /\ UNCHANGED << dvars, cvars, avars, svars, bvars, OwnerRest, owners >>

SpecOwner == Init /\ [][NextOwner]_vars

\* One call of maths::sin on every argument drawn.
InitSin == InitDisplay /\ InitChannel /\ ParkedAnimation /\ ParkedBrightness /\ InitNeopixel /\ InitButton /\ InitHistory /\ InitSine

NextSin == CallSin /\ UNCHANGED << dvars, cvars, avars, svars, nvars, bvars, offSince, sinkOk, panicAt, lvars, ovars, zvars >>

SpecSin == InitSin /\ [][NextSin]_vars

\* The channel between main and display_task.
NextChan ==
    \/ DisplayBoot /\ UNCHANGED << cvars, avars, svars, nvars, bvars, xvars >>
    \/ MainSendInit /\ UNCHANGED << dvars, avars, svars, nvars, bvars, xvars >>
    \/ MainPress /\ UNCHANGED << dvars, avars, svars, nvars, bvars, xvars >>
    \/ MainSendTorch /\ UNCHANGED << dvars, avars, svars, nvars, bvars, xvars >>
    \/ MainSendAddress /\ UNCHANGED << dvars, avars, svars, nvars, bvars, xvars >>
    \/ ChannelReceive /\ UNCHANGED << avars, svars, nvars, bvars, xvars >>

SpecChan == Init /\ [][NextChan]_vars

\* One animation, called at any clock by any caller.
InitAnim == InitDisplay /\ InitChannel /\ InitAnimation /\ ParkedBrightness /\ InitNeopixel /\ InitButton /\ InitExtra

NextAnim ==
    \/ CallNextBuffer /\ UNCHANGED << dvars, cvars, svars, nvars, bvars, xvars >>
    \/ CallIsInterruptable /\ UNCHANGED << dvars, cvars, svars, nvars, bvars, xvars >>
    \/ AdvanceTime /\ UNCHANGED << cvars, avars, svars, nvars, bvars, xvars >>

SpecAnim == InitAnim /\ [][NextAnim]_vars

\* set_brightness on every input.
InitBright == InitDisplay /\ InitChannel /\ ParkedAnimation /\ InitBrightness /\ InitNeopixel /\ InitButton /\ InitExtra

NextBright == CallSetBrightness /\ UNCHANGED << dvars, cvars, avars, nvars, bvars, xvars >>

SpecBright == InitBright /\ [][NextBright]_vars

\* handle_neopixel with the writers of RGB_CONFIG.
NextNeo ==
    \/ NeoIteration /\ UNCHANGED << dvars, cvars, avars, svars, bvars, xvars >>
    \/ \E c \in NeoConfigs : ApplyConfig(c) /\ UNCHANGED << dvars, cvars, avars, svars, bvars, xvars >>
    \/ AdvanceMs /\ UNCHANGED << dvars, cvars, avars, svars, bvars, xvars >>

SpecNeo == Init /\ [][NextNeo]_vars

\* handle_button with the button it watches.
NextButton ==
    \/ PressButton /\ UNCHANGED << dvars, cvars, avars, svars, NeoLocals, xvars >>
    \/ ReleaseButton /\ UNCHANGED << dvars, cvars, avars, svars, NeoLocals, xvars >>
    \/ ButtonClock /\ UNCHANGED << dvars, cvars, avars, svars, NeoLocals, xvars >>
    \/ ButtonDown /\ UNCHANGED << dvars, cvars, avars, svars, NeoLocals, xvars >>
    \/ Race1Released /\ UNCHANGED << dvars, cvars, avars, svars, NeoLocals, xvars >>
    \/ Race1TimedOut /\ UNCHANGED << dvars, cvars, avars, svars, NeoLocals, xvars >>
    \/ Race2Released /\ UNCHANGED << dvars, cvars, avars, svars, NeoLocals, xvars >>
    \/ Race2TimedOut /\ UNCHANGED << dvars, cvars, avars, svars, NeoLocals, xvars >>
    \/ HeldReleased /\ UNCHANGED << dvars, cvars, avars, svars, NeoLocals, xvars >>

SpecButton == Init /\ [][NextButton]_vars

(***************************************************************************)
(* Claims about the display coordinator                                    *)
(***************************************************************************)
\* Frames a Sparkle of animation a can produce, whatever the rng draws.
FramesOf(a) ==
    {[i \in Leds |-> set_brightness(d[i], a.colour)] : d \in [Leds -> 0..254]}

InitialAnimation == SparkleNew(DEFAULT_COLOUR, Some(2 * UnitsPerSec), 0)
InitialExpiry == 2 * UnitsPerSec

\* C1 (as claimed): on a running tick with an interruptable, still producing
\* current animation X and exactly one pending animation Y, Y becomes the
\* current animation, the queue is empty afterwards, and exactly one frame is
\* written, produced by Y.
C1_QueueSwapWritesFrameOfY ==
    [][(/\ TickFired
        /\ running
        /\ is_interruptable(current_animation)
        /\ ~Done(current_animation, now)
        /\ Len(animation_queue) = 1)
       => (/\ current_animation' = Head(animation_queue)
           /\ animation_queue' = << >>
           /\ emitSrc' = Some(Head(animation_queue))
           /\ Len(ledOps') = 1
           /\ ledOps'[1].buf \in FramesOf(Head(animation_queue))
           /\ ledOps'[1].level = brightness)]_vars

\* C2: on every running tick on which the current animation X was constructed
\* with an expiry that has not passed and an animation is pending, exactly one
\* frame is written, it is produced by X, X stays current and the queue (head
\* included) is unchanged.
C2_QueueNonSwapRule ==
    [][(/\ TickFired
        /\ running
        /\ ~is_interruptable(current_animation)
        /\ ~Done(current_animation, now)
        /\ animation_queue # << >>)
       => (/\ current_animation' = current_animation
           /\ animation_queue' = animation_queue
           /\ row' = 3
           /\ emitSrc' = Some(current_animation)
           /\ Len(ledOps') = 1
           /\ ledOps'[1].buf \in FramesOf(current_animation)
           /\ ledOps'[1].level = brightness)]_vars

C2_Witness ==
    /\ ev = "tick" /\ row = 3
    /\ animation_queue # << >>
    /\ IsSome(current_animation.expires) /\ now < Unwrap(current_animation.expires)
    /\ emitSrc = Some(current_animation)
    /\ Len(ledOps) = 1

\* C3: every transfer of a tick handled before the initial animation expires
\* (2 s after task start) carries a frame of the initial (default colour)
\* animation, whatever was queued meanwhile; a frame of a queued animation is
\* written only by a tick at or after the expiry.
C3_DefaultUntilExpiry ==
    /\ (ev = "tick" /\ now < InitialExpiry)
         => /\ emitSrc \in {None, Some(InitialAnimation)}
            /\ current_animation = InitialAnimation
            /\ \A i \in DOMAIN ledOps :
                 /\ ledOps[i].buf \in FramesOf(InitialAnimation)
                 /\ \A j \in Leds : ledOps[i].buf[j].r = 0 /\ ledOps[i].buf[j].b = 0
    /\ (IsSome(emitSrc) /\ Unwrap(emitSrc) # InitialAnimation) => now >= InitialExpiry

C3_Witness ==
    /\ ev = "tick" /\ row = 5
    /\ now = InitialExpiry
    /\ emitSrc = Some(SparkleNew(Blue, None, 0))
    /\ Len(ledOps) = 1
    /\ \E j \in Leds : ledOps[1].buf[j].b > 0

\* C10: Torch(true) stops scheduling, sets torch and writes one all-white
\* frame at the stored brightness; Torch(false) resumes scheduling, clears
\* torch and writes one all-off frame; brightness, the current animation and
\* the pending queue are unchanged by both.
C10_TorchEffects ==
    [][/\ CommandReceived(<<"Torch", TRUE>>)
          => /\ running' = FALSE /\ torch' = TRUE
             /\ ledOps' = << [buf |-> [i \in Leds |-> White], level |-> brightness] >>
             /\ UNCHANGED << brightness, current_animation, animation_queue >>
       /\ CommandReceived(<<"Torch", FALSE>>)
          => /\ running' = TRUE /\ torch' = FALSE
             /\ ledOps' = << [buf |-> [i \in Leds |-> Black], level |-> 0] >>
             /\ UNCHANGED << brightness, current_animation, animation_queue >>]_vars

C10_Witness ==
    /\ ev = "cmd" /\ torch /\ ~running
    /\ brightness = 255
    /\ ledOps = << [buf |-> [i \in Leds |-> White], level |-> 255] >>
    /\ animation_queue # << >>

(***************************************************************************)
(* Claims about the command channel                                        *)
(***************************************************************************)
\* C9: the channel never holds more than 10 commands; while it holds 10 no
\* send completes (the sender stays where it is, nothing is dropped or
\* overwritten); a completed send appends at the tail, a receive removes the
\* head, and the commands display_task has applied followed by those in the
\* channel are exactly the commands sent, in the order sent.
C9_ChannelBoundedFifo ==
    /\ [](Len(channel) <= 10 /\ sent = applied \o channel)
    /\ [][/\ Len(channel) = 10 =>
               /\ sent' = sent
               /\ mpc \in {"sendInit", "sendTorch", "sendAddr"} => mpc' = mpc
               /\ channel' \in {channel, Tail(channel)}
          /\ sent' # sent =>
               /\ sent' = Append(sent, sent'[Len(sent')])
               /\ channel' = Append(channel, sent'[Len(sent')])
               /\ applied' = applied
          /\ applied' # applied =>
               /\ applied' = Append(applied, Head(channel))
               /\ channel' = Tail(channel)
               /\ sent' = sent]_vars

C9_Witness ==
    /\ Len(channel) = 10
    /\ mpc \in {"sendInit", "sendTorch", "sendAddr"}
    /\ Len(applied) > 0
    /\ sent = applied \o channel

(***************************************************************************)
(* Claims about animations.rs                                              *)
(***************************************************************************)
\* C4: once next_buffer has returned None for an animation, every later call
\* returns None; an animation constructed without expiry never returns None.
C4_StickyTermination ==
    /\ IsSome(noneAt) => nbLast = "None"
    /\ animTtl = None => noneAt = None /\ nbLast # "None"

C4_Witness ==
    /\ IsSome(noneAt) /\ nbAt > Unwrap(noneAt) /\ nbLast = "None"
    /\ IsSome(animTtl) /\ Unwrap(animTtl) > 0

\* C5: is_interruptable returns false for a Sparkle constructed with an
\* expiry and true for one constructed without, before and after calls of
\* next_buffer and at every clock; a call leaves the animation as it was.
C5_InterruptableByConstruction ==
    /\ IsSome(intLast) => Unwrap(intLast) = (animTtl = None)
    /\ anim.expires = (IF IsSome(animTtl) THEN Some(Unwrap(animTtl)) ELSE None)

C5_Witness ==
    /\ IsSome(animTtl) /\ intLast = Some(FALSE)
    /\ nbLast = "Some" /\ nbAt > 0 /\ now = nbAt

\* C6: set_brightness(0, c) is black, set_brightness(255, c) is c, and for
\* 0 < b < 255 every channel is floor(channel * b / 255); the product fits 16
\* bits and no output channel exceeds the input channel.
C6_BrightnessScaling ==
    IsSome(sbOut) =>
        LET b == sbIn.brightness
            p == sbIn.pixel
            o == Unwrap(sbOut)
        IN  /\ b = 0 => o = [r |-> 0, g |-> 0, b |-> 0]
            /\ b = 255 => o = p
            /\ (0 < b /\ b < 255) =>
                 /\ o.r = (p.r * b) \div 255
                 /\ o.g = (p.g * b) \div 255
                 /\ o.b = (p.b * b) \div 255
            /\ p.r * b < 65536 /\ p.g * b < 65536 /\ p.b * b < 65536
            /\ o.r <= p.r /\ o.g <= p.g /\ o.b <= p.b
            /\ o.r \in U8 /\ o.g \in U8 /\ o.b \in U8

C6_Witness ==
    /\ IsSome(sbOut)
    /\ sbIn.brightness = 254 /\ sbIn.pixel.r = 255
    /\ Unwrap(sbOut).r = 254

(***************************************************************************)
(* Claims about handle_neopixel                                            *)
(***************************************************************************)
\* C7: an iteration issues a hardware write only if the colour it computed
\* differs from the colour of the most recent hardware write; when it computes
\* the colour the previous comparing iteration computed it issues none, and
\* when it computes another colour it issues exactly one, of that colour.
C7_RedundantWriteSuppression ==
    [][NeoIteration =>
        /\ neoOp' = "write" =>
             /\ IsSome(lastColour')
             /\ IsSome(lastWrite) => Unwrap(lastWrite).colour # Unwrap(lastColour')
             /\ lastWrite' = Some([colour |-> Unwrap(lastColour'),
                                   level |-> cfg.rgb_brightness])
        /\ neoOp' # "write" => lastWrite' = lastWrite
        /\ (neoOp' \in {"same", "write"} /\ IsSome(lastColour)) =>
             (neoOp' = "same" <=> lastColour' = lastColour)]_vars

C7_Witness ==
    /\ neoOp = "same"
    /\ IsSome(lastWrite) /\ IsSome(lastColour)
    /\ Unwrap(lastWrite).colour = Unwrap(lastColour)
    /\ prev_colour = Unwrap(lastColour)

(***************************************************************************)
(* Claims about handle_button                                              *)
(***************************************************************************)
\* C8: a press-release cycle whose duration_pressed d is at most the debounce
\* threshold signals no event; threshold < d <= 500 ms signals exactly one
\* Press; 500 ms < d <= 1000 ms exactly one HoldHalfSecond; d > 1000 ms
\* exactly one HoldFullSecond; the signalled event is the latest value of
\* BUTTON_STATE.
C8_ButtonClassification ==
    (bpc = "idle" /\ ~ledPin) =>
        /\ lastDur <= 1 => published = << >>
        /\ (1 < lastDur /\ lastDur <= 20) => published = << "Press" >>
        /\ (20 < lastDur /\ lastDur <= 40) => published = << "HoldHalfSecond" >>
        /\ 40 < lastDur => published = << "HoldFullSecond" >>
        /\ published # << >> => signal = Some(published[1])

C8_Witness ==
    /\ bpc = "idle"
    /\ lastDur = 21
    /\ published = << "HoldHalfSecond" >>
    /\ signal = Some("HoldHalfSecond")
    /\ cfg = RgbConfigDefault

(***************************************************************************)
(* Claims about the commands of display_task                               *)
(***************************************************************************)
\* C11 (as claimed): in every reachable state in which the torch flag is
\* true, running is false and a tick has written nothing to the strip.
C11_TorchOverridesScheduling ==
    torch => (~running /\ (ev = "tick" => ledOps = << >>))

\* C12: Stop sets running to false and Start sets it to true; a tick that
\* fires while running is false evaluates no arm of the decision table (no
\* call of next_buffer), writes nothing to the strip and leaves the current
\* animation, the pending queue, brightness, torch and running unchanged.
C12_StoppedTickDoesNothing ==
    [][/\ CommandReceived(<<"Stop">>) => running' = FALSE
       /\ CommandReceived(<<"Start">>) => running' = TRUE
       /\ (TickFired /\ ~running) =>
            /\ row' = 0 /\ ledOps' = << >> /\ emitSrc' = None
            /\ UNCHANGED << current_animation, animation_queue, brightness,
                            torch, running >>
       /\ (TickFired /\ running) => row' \in 1..5]_vars

C12_Witness ==
    /\ ev = "tick" /\ ~running /\ ~torch
    /\ row = 0 /\ ledOps = << >>
    /\ animation_queue # << >>
    /\ now >= 1

\* C13 (as claimed): Off writes one all-off frame and sets running to false;
\* from then until On, Start or a Torch command is applied nothing but
\* all-off frames is written to the strip, by a tick or otherwise; On sets
\* running to true, so that the next tick runs the decision table.
C13_OffKeepsStripDark ==
    [][/\ CommandReceived(<<"Off">>) => (ledOps' = << all_off >> /\ running' = FALSE)
       /\ CommandReceived(<<"On">>) => running' = TRUE
       /\ (offSince /\ offSince') =>
            /\ running' = FALSE
            /\ \A i \in DOMAIN ledOps' : ledOps'[i] = all_off]_vars

\* C14: Brightness(b) stores b; with torch set it writes one all-white frame
\* at level b and without torch it writes nothing; running, torch, the
\* current animation and the pending queue are unchanged; every animation
\* frame and every torch frame written afterwards carries the stored level.
C14_BrightnessCommand ==
    /\ [][/\ \A b \in BrightnessArgs :
              CommandReceived(<<"Brightness", b>>) =>
                /\ brightness' = b
                /\ torch => ledOps' = << [buf |-> [i \in Leds |-> White], level |-> b] >>
                /\ ~torch => ledOps' = << >>
                /\ UNCHANGED << running, torch, current_animation, animation_queue >>
          /\ brightness' # brightness =>
                CommandReceived(<<"Brightness", brightness'>>)]_vars
    /\ [](\A i \in DOMAIN ledOps :
            \/ ledOps[i] = [buf |-> [j \in Leds |-> Black], level |-> 0]
            \/ ledOps[i].level = brightness)

C14_Witness ==
    /\ ev = "tick" /\ brightness = 255 /\ ~torch
    /\ Len(ledOps) = 1 /\ ledOps[1].level = 255
    /\ \E j \in Leds : ledOps[1].buf[j].g > 0

\* C15: applying Init or SetAddress(pos) issues no write to the LED strip and
\* leaves running, torch, brightness, the current animation and the pending
\* queue unchanged; only the text of the screen changes.
C15_TextCommandsLeaveLeds ==
    [][\A m \in {<<"Init">>} \cup {<<"SetAddress", a>> : a \in AddressArgs} :
         CommandReceived(m) =>
            /\ ledOps' = << >>
            /\ UNCHANGED << running, torch, brightness, current_animation,
                            animation_queue >>]_vars

C15_Witness ==
    /\ ev = "cmd" /\ ledOps = << >>
    /\ screen = <<"Position", 7, "Address", 15>>
    /\ torch /\ brightness = 255 /\ animation_queue # << >>

(***************************************************************************)
(* Claims about hardware failure                                           *)
(***************************************************************************)
\* C16 (as claimed): when a transfer to the LED hardware fails, or the
\* initialisation of the display fails, no task panics: the program is never
\* halted by display_task or handle_neopixel.
C16_FailureDegradesToIdle ==
    panicAt = "none"

(***************************************************************************)
(* Claims about RGB_CONFIG                                                 *)
(***************************************************************************)
\* C17: at most one task holds a guard of RGB_CONFIG at any time; a task
\* suspended in an await (a select, a timer, an edge wait, a yield, a
\* hardware write, or lock() itself) holds no guard; and every step that
\* reads the configuration into previous_mode or writes it is taken by a task
\* that holds the guard.
C17_ConfigUnderMutex ==
    /\ [](Cardinality(holds) <= 1)
    /\ [](\A t \in LockUsers : lpc[t] \in (AwaitPcs \cup LockPcs) => t \notin holds)
    /\ [][(cfg' # cfg \/ previous_mode' # previous_mode) =>
            \E t \in holds : lpc'[t] # lpc[t]]_vars

C17_Witness ==
    /\ holds = {"handle_button"}
    /\ lpc["handle_button"] = "in3"
    /\ lpc["handle_neopixel"] = "lock"
    /\ lpc["apply"] = "lock"
    /\ cfg.rgb_mode = <<"Static", HoldColour2>>

(***************************************************************************)
(* Claims about the LED hardware                                           *)
(***************************************************************************)
\* C18: the LED hardware has at most one owning task; at most one task has a
\* transfer to it in flight, and that task is the owner; a transfer of
\* display_task and a transfer of handle_neopixel are never in flight
\* together.
C18_SingleLedOwner ==
    /\ Cardinality(owners) <= 1
    /\ Cardinality(writing) <= 1
    /\ writing \subseteq owners
    /\ ~({"display_task", "handle_neopixel"} \subseteq writing)

C18_Witness ==
    /\ writing = {"display_task"}
    /\ owners = {"display_task"}
    /\ ev = "tick" /\ Len(ledOps) = 1
    /\ npc = "run" /\ neoOp = "none"

\* C19: when handle_button returns to wait_for_low after a hold, whichever
\* way the hold ended, the mode of the shared configuration is the mode the
\* hold override found; a press released before the first timer leaves the
\* configuration untouched; no step of handle_button changes the brightness
\* level or the rate multiplier.
C19_HoldRestoresMode ==
    [][lpc'["handle_button"] # lpc["handle_button"] =>
         /\ (lpc["handle_button"] = "in1") =>
              (hold_mode' = Some(cfg.rgb_mode) /\ cfg'.rgb_mode = <<"Static", HoldColour1>>)
         /\ (lpc["handle_button"] = "in2") => cfg'.rgb_mode = <<"Static", HoldColour2>>
         /\ (lpc'["handle_button"] = "wait_for_low" /\ lpc["handle_button"] = "in3") =>
              (IsSome(hold_mode) /\ cfg'.rgb_mode = Unwrap(hold_mode))
         /\ (lpc'["handle_button"] = "wait_for_low" /\ lpc["handle_button"] = "select1") =>
              cfg' = cfg
         /\ lpc["handle_button"] \notin {"in1", "in2", "in3"} => cfg' = cfg
         /\ cfg'.rgb_brightness = cfg.rgb_brightness
         /\ cfg'.rgb_rate_modifier = cfg.rgb_rate_modifier]_vars

C19_Witness ==
    /\ lpc["handle_button"] = "wait_for_low"
    /\ hold_mode = Some(<<"Fibonacci", 100>>)
    /\ cfg = [rgb_mode |-> <<"Fibonacci", 100>>, rgb_brightness |-> 255,
              rgb_rate_modifier |-> 7]

(***************************************************************************)
(* Claims about maths.rs                                                   *)
(***************************************************************************)
\* C20 (as claimed): with x the argument reduced to [0, 2 pi), sin(0) is 0,
\* the result for x in [0, pi/2] is the polynomial at x, for x in (pi/2, pi]
\* the polynomial at pi - x, and for x in (pi, 2 pi) the negation of the
\* result for x - pi.
C20_SineQuadrantReduction ==
    IsSome(sinOut) =>
        LET x == sinIn % TAU_MRAD
            y == Unwrap(sinOut)
        IN  /\ sinIn = 0 => y = 0
            /\ x <= FRAC_PI_2_MRAD => y = MaclaurinSin(x)
            /\ (FRAC_PI_2_MRAD < x /\ x <= PI_MRAD) => y = MaclaurinSin(PI_MRAD - x)
            /\ (PI_MRAD < x /\ x < TAU_MRAD) => y = 0 - sin(x - PI_MRAD)


(***************************************************************************)
(* The calls of next_buffer made by one tick                               *)
(***************************************************************************)
\* The animations next_buffer is called on by one tick that takes row k of
\* the match, in the order of the calls: the scrutinee calls it on
\* current_animation (x); rows 1 and 5 call it on the animation they
\* dequeued (y), and row 4 calls it on current_animation again.  A stopped
\* tick (row 0) makes no call.
NextBufferCalls(k, x, y) ==
    IF k = 0 THEN << >>
    ELSE IF k \in {2, 3} THEN << <<"current_animation", x>> >>
    ELSE IF k = 4 THEN << <<"current_animation", x>>, <<"current_animation", x>> >>
    ELSE << <<"current_animation", x>>, <<"animation", y>> >>

\* One tick, with the calls it made.
TickWithCalls ==
    /\ TickFired
    /\ nbCalls' = NextBufferCalls(row', current_animation, current_animation')

CallsRest == << offSince, sinkOk, panicAt, lvars, ovars, mvars, lastDraw, scope, waits, ivars >>

NextCalls ==
    \/ DisplayBoot /\ UNCHANGED << cvars, avars, svars, nvars, bvars, xvars >>
    \/ TickWithCalls /\ UNCHANGED << cvars, avars, svars, nvars, bvars, CallsRest >>
    \/ \E m \in DisplayState : CommandReceived(m) /\ UNCHANGED << cvars, avars, svars, nvars, bvars, xvars >>
    \/ \E a \in AnimationArgs : Enqueue(a[1], a[2]) /\ UNCHANGED << cvars, avars, svars, nvars, bvars, xvars >>
    \/ AdvanceTime /\ UNCHANGED << cvars, avars, svars, nvars, bvars, xvars >>

SpecCalls == Init /\ [][NextCalls]_vars

\* C21: in every tick, next_buffer is called at most once on any given
\* animation: no two calls of the latest tick have the same target.
C21_OneCallPerAnimation ==
    \A i, j \in DOMAIN nbCalls : i # j => nbCalls[i][1] # nbCalls[j][1]


C23_NoLossFifoActivation ==
    [][/\ animation_queue' # animation_queue =>
            \/ /\ Len(animation_queue') = Len(animation_queue) + 1
               /\ SubSeq(animation_queue', 1, Len(animation_queue)) = animation_queue
               /\ UNCHANGED current_animation
            \/ /\ TickFired /\ running
               /\ row' \in {1, 5}
               /\ animation_queue # << >>
               /\ animation_queue' = Tail(animation_queue)
               /\ current_animation' = Head(animation_queue)
               /\ ledOps' # << >>
               /\ ledOps'[Len(ledOps')].buf \in FramesOf(Head(animation_queue))
               /\ emitSrc' = Some(Head(animation_queue))
       /\ (TickFired /\ row' = 3) => UNCHANGED << animation_queue, current_animation >>]_vars


(***************************************************************************)
(* The draws of the rate-limited modes                                     *)
(***************************************************************************)
\* Whether an iteration that took outcome op under config drew a value:
\* rng.random() of the Random arm or fib.next() of the Fibonacci arm ran,
\* which is the case unless the arm took its else branch (yield, continue).
Draws(config, op) ==
    config.rgb_mode[1] \in {"Random", "Fibonacci"} /\ op \in {"same", "write"}

\* One iteration, with the millisecond of its draw.
NeoIterationWithDraw ==
    /\ NeoIteration
    /\ lastDraw' = IF Draws(cfg, neoOp') THEN Some(nowMs) ELSE lastDraw

RateRest == << offSince, sinkOk, panicAt, lvars, ovars, mvars, nbCalls, scope, waits, ivars >>

RateConfigs == {c \in NeoConfigs : c.rgb_mode[1] \in {"Random", "Fibonacci", "Static"}}

NextRate ==
    \/ NeoIterationWithDraw /\ UNCHANGED << dvars, cvars, avars, svars, bvars, RateRest >>
    \/ \E c \in RateConfigs : ApplyConfig(c) /\ UNCHANGED << dvars, cvars, avars, svars, bvars, xvars >>
    \/ AdvanceMs /\ UNCHANGED << dvars, cvars, avars, svars, bvars, xvars >>

SpecRate == Init /\ [][NextRate]_vars

\* C24 (as claimed): in Random and Fibonacci modes an iteration draws a value
\* only when the clock in ms modulo the period is zero, at most one value is
\* drawn per zero crossing (no draw in a millisecond in which one was made
\* already), and every other iteration draws nothing, leaves the Fibonacci
\* state alone and writes nothing.
C24_RateLimitedDraws ==
    [][(/\ NeoIterationWithDraw
        /\ cfg.rgb_mode[1] \in {"Random", "Fibonacci"}
        /\ ~RatePanics(cfg.rgb_mode[2], cfg.rgb_rate_modifier))
       => IF RateDue(cfg.rgb_mode[2], cfg.rgb_rate_modifier, nowMs)
          THEN /\ Draws(cfg, neoOp')
               /\ lastDraw # Some(nowMs)
          ELSE /\ neoOp' = "skip"
               /\ UNCHANGED << fib, lastWrite, prev_colour, lastDraw >>]_vars


\* C26: the event published on release agrees with the races won while the
\* button was held.  A cycle that ends after the first 500 ms timer won (the
\* mode was overridden with the first feedback colour) publishes
\* HoldHalfSecond or HoldFullSecond, never Press and never nothing; a cycle
\* that ends after the second timer won as well (the second feedback colour
\* was applied) publishes HoldFullSecond; Press is published only by a cycle
\* whose release won the first race.
C26_EventAgreesWithRaces ==
    [][/\ (bpc = "race1" /\ bpc' = "race2") => cfg'.rgb_mode = <<"Static", HoldColour1>>
       /\ (bpc = "race2" /\ bpc' = "held") => cfg'.rgb_mode = <<"Static", HoldColour2>>
       /\ (bpc \in {"race2", "held"} /\ bpc' = "idle") =>
            /\ published' \in {<< "HoldHalfSecond" >>, << "HoldFullSecond" >>}
            /\ signal' = Some(published'[1])
       /\ (bpc = "held" /\ bpc' = "idle") => published' = << "HoldFullSecond" >>
       /\ (bpc # "idle" /\ bpc' = "idle" /\ published' = << "Press" >>) => bpc = "race1"]_vars

\* A release right after the first timer won: the shortest hold.
C26_Witness ==
    /\ bpc = "idle"
    /\ published = << "HoldHalfSecond" >>
    /\ lastDur = HalfSecondUnits + 1
    /\ deadline2 = lastDur + HalfSecondUnits


(***************************************************************************)
(* The suspension points of the task loops                                 *)
(***************************************************************************)
\* An iteration of handle_neopixel that ends its arm without a yield when
\* the colour is unchanged.
NeoWaitsNoYieldWhenSame(op) ==
    IF op = "skip" THEN << "yield_now" >>
    ELSE IF op = "write" THEN << "write" >>
    ELSE << >>

\* The awaits that can suspend, reached by an iteration of handle_neopixel
\* that took outcome op: the yield of the else branch of a rate-limited arm,
\* the yield of the suppressed write, or the hardware write.  A panicking
\* iteration reaches none, and no iteration follows it.
NeoWaits(op) ==
    IF op \in {"skip", "same"} THEN << "yield_now" >>
    ELSE IF op = "write" THEN << "write" >>
    ELSE << >>

\* The awaits reached by an iteration of display_task's main loop that took
\* event e and issued the transfers ops: the select over the ticker and the
\* channel, then one await per transfer.
DisplayWaits(e, ops) ==
    << (IF e = "tick" THEN "ticker.next" ELSE "channel.receive") >>
    \o [i \in 1..Len(ops) |-> "write"]

\* The loop entered when display.init() failed.
DisplayIdle ==
    /\ dpc = "idle"
    /\ waits' = << "yield_now" >>
    /\ UNCHANGED dvars

\* The loop of handle_button: wait_for_low opens the iteration, each select
\* and the final button_release.await add to it.
ButtonWaits(from, w) ==
    IF from = "idle" THEN << "wait_for_low" >>
    ELSE IF from \in {"race1", "race2"} THEN Append(w, "select")
    ELSE Append(w, "wait_for_high")

\* The loop of one task is followed at a time.
Follow(t) ==
    /\ scope = "none"
    /\ scope' = t
    /\ UNCHANGED << dvars, cvars, avars, svars, nvars, bvars, offSince, sinkOk,
                    panicAt, lvars, ovars, mvars, nbCalls, lastDraw, waits, ivars >>

WaitRest == << offSince, sinkOk, panicAt, lvars, ovars, mvars, nbCalls, lastDraw, scope, ivars >>

ButtonStep ==
    \/ ButtonDown
    \/ Race1Released
    \/ Race1TimedOut
    \/ Race2Released
    \/ Race2TimedOut
    \/ HeldReleased

NextWait ==
    \/ \E t \in {"handle_neopixel", "display_task", "handle_button"} : Follow(t)
    \/ /\ scope = "handle_neopixel"
       /\ NeoIteration
       /\ waits' = NeoWaits(neoOp')
       /\ UNCHANGED << dvars, cvars, avars, svars, bvars, WaitRest >>
    \/ /\ scope = "handle_neopixel"
       /\ \E c \in NeoConfigs : ApplyConfig(c)
       /\ UNCHANGED << dvars, cvars, avars, svars, bvars, xvars >>
    \/ /\ scope = "handle_neopixel"
       /\ AdvanceMs
       /\ UNCHANGED << dvars, cvars, avars, svars, bvars, xvars >>
    \/ /\ scope = "display_task"
       /\ DisplayBoot
       /\ UNCHANGED << cvars, avars, svars, nvars, bvars, xvars >>
    \/ /\ scope = "display_task"
       /\ DisplayIdle
       /\ UNCHANGED << cvars, avars, svars, nvars, bvars, WaitRest >>
    \/ /\ scope = "display_task"
       /\ TickFired
       /\ waits' = DisplayWaits(ev', ledOps')
       /\ UNCHANGED << cvars, avars, svars, nvars, bvars, WaitRest >>
    \/ /\ scope = "display_task"
       /\ \E m \in DisplayState : CommandReceived(m)
       /\ waits' = DisplayWaits(ev', ledOps')
       /\ UNCHANGED << cvars, avars, svars, nvars, bvars, WaitRest >>
    \/ /\ scope = "display_task"
       /\ AdvanceTime
       /\ UNCHANGED << cvars, avars, svars, nvars, bvars, xvars >>
    \/ /\ scope = "handle_button"
       /\ PressButton \/ ReleaseButton \/ ButtonClock
       /\ UNCHANGED << dvars, cvars, avars, svars, NeoLocals, xvars >>
    \/ /\ scope = "handle_button"
       /\ ButtonStep
       /\ waits' = ButtonWaits(bpc, waits)
       /\ UNCHANGED << dvars, cvars, avars, svars, NeoLocals, WaitRest >>

SpecWait == Init /\ [][NextWait]_vars

\* C25: every iteration of every task loop reaches an await that can suspend
\* before the next iteration starts: an iteration of handle_neopixel that
\* does not panic reaches a yield (rate-limited arm not due, or write
\* suppressed) or the hardware write; an iteration of display_task's main
\* loop awaits the select over ticker and channel; an iteration of its idle
\* loop yields; an iteration of handle_button awaits wait_for_low first and
\* has awaited it when it ends, with or without an event signalled.
C25_EveryIterationSuspends ==
    [][/\ (NeoIteration /\ npc' = "run") =>
            /\ waits' # << >>
            /\ neoOp' \in {"skip", "same"} => waits' = << "yield_now" >>
            /\ neoOp' = "write" => waits' = << "write" >>
       /\ (TickFired \/ \E m \in DisplayState : CommandReceived(m)) => waits' # << >>
       /\ (dpc = "idle" /\ waits' # waits) => waits' = << "yield_now" >>
       /\ (bpc = "idle" /\ bpc' # "idle") => waits' = << "wait_for_low" >>
       /\ (bpc # "idle" /\ bpc' = "idle") =>
            /\ Len(waits') >= 2
            /\ waits'[1] = "wait_for_low"]_vars

\* The suppressed-write branch of handle_neopixel has been taken.
C25_Witness ==
    /\ scope = "handle_neopixel"
    /\ neoOp = "same"
    /\ IsSome(lastWrite)
    /\ waits = << "yield_now" >>


(***************************************************************************)
(* display_task over a clock that never stops.  The clock is kept relative:*)
(* `now` stays 0 and a unit of time passing moves every expiry and the     *)
(* ticker's next instant one unit closer, which leaves every comparison of *)
(* the source (now >= expires, tick due) as it is.                         *)
(***************************************************************************)
\* An animation seen one unit of time later.
Later(a) ==
    IF IsSome(a.expires) /\ Unwrap(a.expires) > 0
    THEN [a EXCEPT !.expires = Some(Unwrap(a.expires) - 1)]
    ELSE a

\* One unit of time passes; a tick that is due is handled first.
ClockLive ==
    /\ now < nextTick
    /\ nextTick' = nextTick - 1
    /\ current_animation' = Later(current_animation)
    /\ animation_queue' = [i \in 1..Len(animation_queue) |-> Later(animation_queue[i])]
    /\ UNCHANGED << now, dpc, running, torch, brightness, screen, ev, row, ledOps, emitSrc >>

LiveIds == 0..MaxPending

\* A producer queues an animation, which gets an identity not in use.
EnqueueLive(colour, ttl) ==
    /\ Enqueue(colour, ttl)
    /\ qids' = Append(qids, CHOOSE i \in LiveIds :
                               /\ i # curId /\ \A k \in 1..Len(qids) : qids[k] # i
                               /\ \A j \in LiveIds :
                                    (j # curId /\ \A k \in 1..Len(qids) : qids[k] # j) => i <= j)
    /\ UNCHANGED curId

\* One tick; the identity follows the animation the tick made current.
TickLive ==
    /\ TickFired
    /\ IF row' \in {1, 5}
       THEN curId' = Head(qids) /\ qids' = Tail(qids)
       ELSE UNCHANGED << curId, qids >>

LiveRest == << offSince, sinkOk, panicAt, lvars, ovars, mvars, nbCalls, lastDraw, scope, waits >>

NextLive ==
    \/ DisplayBoot /\ UNCHANGED << cvars, avars, svars, nvars, bvars, xvars >>
    \/ TickLive /\ UNCHANGED << cvars, avars, svars, nvars, bvars, LiveRest >>
    \/ ClockLive /\ UNCHANGED << cvars, avars, svars, nvars, bvars, xvars >>
    \/ \E a \in AnimationArgs : EnqueueLive(a[1], a[2]) /\ UNCHANGED << cvars, avars, svars, nvars, bvars, LiveRest >>
    \/ \E m \in {<<"Stop">>, <<"Start">>} : CommandReceived(m) /\ UNCHANGED << cvars, avars, svars, nvars, bvars, xvars >>

\* The ticker fires every ANIMATION_UPDATE and the executor polls display_task
\* when it does; time passes.
SpecLive ==
    /\ Init
    /\ [][NextLive]_vars
    /\ WF_vars(TickLive /\ UNCHANGED << cvars, avars, svars, nvars, bvars, LiveRest >>)
    /\ WF_vars(ClockLive /\ UNCHANGED << cvars, avars, svars, nvars, bvars, xvars >>)

\* C27: if display_task stays running, every animation in the pending queue
\* eventually becomes the current animation; and an interruptable current
\* animation is replaced by the head of a non-empty queue on the very next
\* running tick.
C27_QueueLiveness ==
    /\ (<>[](dpc = "run" /\ running)) =>
         \A i \in LiveIds :
            (\E k \in 1..Len(qids) : qids[k] = i) ~> (curId = i)
    /\ [][(TickLive /\ running /\ is_interruptable(current_animation) /\ qids # << >>)
          => (curId' = Head(qids) /\ current_animation' = Head(animation_queue))]_vars

\* An animation that waited behind another pending one and behind the expiring
\* current animation has become current.
C27_Witness ==
    /\ ev = "tick" /\ row = 5
    /\ curId = 2
    /\ running


\* C28 (as claimed): under every configuration in Random or Fibonacci mode
\* the product rate * rate_multiplier fits 32 bits and the period
\* 5000 / (rate * rate_multiplier) is a positive integer, so the modulo by
\* the period is defined and handle_neopixel never faults on it.
C28_PeriodWellDefined ==
    /\ cfg.rgb_mode[1] \in {"Random", "Fibonacci"} =>
         /\ (cfg.rgb_mode[2] * cfg.rgb_rate_modifier) \div 65536 < 65536
         /\ cfg.rgb_mode[2] * cfg.rgb_rate_modifier # 0
         /\ 5000 \div (cfg.rgb_mode[2] * cfg.rgb_rate_modifier) > 0
    /\ npc # "panicked"


(***************************************************************************)
(* handle_neopixel under changes of RGB_CONFIG, polled for ever            *)
(***************************************************************************)
\* Static configurations that differ in the colour, or in the brightness
\* level only (RgbBrightness::Low and RgbBrightness::Max).
VisibleConfigs ==
    { [rgb_mode |-> <<"Static", Black>>, rgb_brightness |-> 10, rgb_rate_modifier |-> 7],
      [rgb_mode |-> <<"Static", HoldColour1>>, rgb_brightness |-> 10, rgb_rate_modifier |-> 7],
      [rgb_mode |-> <<"Static", HoldColour1>>, rgb_brightness |-> 255, rgb_rate_modifier |-> 7],
      [rgb_mode |-> <<"Static", HoldColour2>>, rgb_brightness |-> 255, rgb_rate_modifier |-> 7] }

NextVisible ==
    \/ NeoIteration /\ UNCHANGED << dvars, cvars, avars, svars, bvars, xvars >>
    \/ \E c \in VisibleConfigs : ApplyConfig(c) /\ UNCHANGED << dvars, cvars, avars, svars, bvars, xvars >>
    \/ AdvanceMs /\ UNCHANGED << dvars, cvars, avars, svars, bvars, xvars >>

\* The executor polls handle_neopixel again after each of its awaits.
SpecVisible ==
    /\ Init
    /\ [][NextVisible]_vars
    /\ WF_vars(NeoIteration /\ UNCHANGED << dvars, cvars, avars, svars, bvars, xvars >>)

\* C29 (as claimed): every change of RGB_CONFIG becomes visible on the strip:
\* once the configuration has settled on a static colour and a brightness
\* level, handle_neopixel eventually has issued a hardware write of that
\* colour at that level, also when the colour equals the one written last or
\* the initial prev_colour (0, 0, 0).
C29_ConfigBecomesVisible ==
    \A c \in VisibleConfigs :
        (<>[](cfg = c)) =>
            <>(lastWrite = Some([colour |-> c.rgb_mode[2], level |-> c.rgb_brightness]))

====
